---- MODULE Spec2Model ----
(***************************************************************************)
(* css-vars-ponyfill: transformVars (src/src/transform-css.js) and the     *)
(* onComplete handler of cssVars (src/src/index.js).                        *)
(*                                                                         *)
(* CSS text values are sequences of one-character strings, so that         *)
(* indexOf, substring, split/join and the regular expressions of the code  *)
(* are computed character by character.  Positions are 1-based; 0 stands   *)
(* for JavaScript's -1 ("not found").                                      *)
(***************************************************************************)
EXTENDS Integers, Sequences, FiniteSets, TLC

\* ------------------------------------------------------------------------
\* Bounds of the model
\* ------------------------------------------------------------------------

\* Depth of the resolveValue recursion at which the engine's call stack is
\* taken to be exhausted (RangeError: Maximum call stack size exceeded).
MaxDepth == 6

\* ------------------------------------------------------------------------
\* Strings
\* ------------------------------------------------------------------------

VAR_PROP_IDENTIFIER == <<"-", "-">>

VAR_FUNC_IDENTIFIER == <<"v", "a", "r">>

\* String(undefined), what String.prototype.replace substitutes when the
\* callback returns undefined.
UndefinedStr == <<"u", "n", "d", "e", "f", "i", "n", "e", "d">>

\* The characters of the class [\w-] that occur in the model's strings.
WordChars ==
    {"a", "b", "c", "d", "e", "f", "i", "n", "p", "r", "u", "v", "x", "y", "z",
     "0", "1", "2", "_", "-"}

\* The characters of the class \s that occur in the model's strings.
SpaceChars == {" "}

StartsAt(s, sub, p) ==
    /\ p >= 1
    /\ p + Len(sub) - 1 <= Len(s)
    /\ SubSeq(s, p, p + Len(sub) - 1) = sub

\* String.prototype.indexOf(sub, from): the first position >= from where sub
\* occurs, 0 when there is none.
IndexOfFrom(s, sub, from) ==
    LET ps == {p \in (IF from < 1 THEN 1 ELSE from)..(Len(s) - Len(sub) + 1) :
                   StartsAt(s, sub, p)}
    IN  IF ps = {} THEN 0 ELSE CHOOSE p \in ps : \A q \in ps : p <= q

IndexOf(s, sub) == IndexOfFrom(s, sub, 1)

\* String.prototype.substring(start) with a 1-based start; a start below the
\* first position (indexOf's "not found" included) is clamped to it.
Substring(s, start) ==
    IF start <= 1 THEN s ELSE SubSeq(s, start, Len(s))

\* value.split(sep).join(by): every occurrence of sep, left to right and
\* without overlap, replaced by `by`.  sep is never empty here.
RECURSIVE SplitJoin(_, _, _)
SplitJoin(s, sep, by) ==
    LET p == IndexOf(s, sep)
    IN  IF p = 0
        THEN s
        ELSE SubSeq(s, 1, p - 1) \o by
                 \o SplitJoin(SubSeq(s, p + Len(sep), Len(s)), sep, by)

\* ------------------------------------------------------------------------
\* balanced-match: balanced('(', ')', str)
\* ------------------------------------------------------------------------

\* The loop of range(a, b, str): i is the scan position, ai/bi the next
\* opening/closing parenthesis, begs the stack of open positions.
RECURSIVE rangeLoop(_, _, _, _, _, _, _)
rangeLoop(str, i, ai, bi, begs, left, right) ==
    IF i = 0
    THEN IF Len(begs) > 0
         THEN [found |-> TRUE, start |-> left, end |-> right]
         ELSE [found |-> FALSE, start |-> 0, end |-> 0]
    ELSE IF i = ai
    THEN LET ai2 == IndexOfFrom(str, <<"(">>, i + 1)
         IN  rangeLoop(str, IF ai2 > 0 /\ ai2 < bi THEN ai2 ELSE bi,
                       ai2, bi, Append(begs, i), left, right)
    ELSE IF Len(begs) = 1
    THEN [found |-> TRUE, start |-> begs[1], end |-> bi]
    ELSE LET beg  == begs[Len(begs)]
             rest == SubSeq(begs, 1, Len(begs) - 1)
             l2   == IF beg < left THEN beg ELSE left
             r2   == IF beg < left THEN bi ELSE right
             bi2  == IndexOfFrom(str, <<")">>, i + 1)
         IN  rangeLoop(str, IF ai > 0 /\ ai < bi2 THEN ai ELSE bi2,
                       ai, bi2, rest, l2, r2)

\* balanced('(', ')', str): the first balanced pair of parentheses of str,
\* found = FALSE for JavaScript's undefined.
balanced(str) ==
    LET ai == IndexOf(str, <<"(">>)
        bi == IndexOfFrom(str, <<")">>, ai + 1)
    IN  IF ai > 0 /\ bi > 0
        THEN LET r == rangeLoop(str, ai, ai, bi, <<>>, Len(str) + 1, 0)
             IN  [found |-> r.found,
                  body  |-> IF r.found THEN SubSeq(str, r.start + 1, r.end - 1)
                            ELSE <<>>]
        ELSE [found |-> FALSE, body |-> <<>>]

\* ------------------------------------------------------------------------
\* resolveValue
\* ------------------------------------------------------------------------

\* The variable map is a function from names to values; a name outside its
\* domain reads as undefined.
MapHas(map, name) == name \in DOMAIN map

MapSet(map, name, value) ==
    [n \in (DOMAIN map) \cup {name} |-> IF n = name THEN value ELSE map[n]]

\* JavaScript truthiness of a string: the empty string is falsy.
Truthy(s) == s # <<>>

\* The end of the maximal run of characters of cls starting at p (the
\* position after it).
RECURSIVE RunEnd(_, _, _)
RunEnd(s, p, cls) ==
    IF p <= Len(s) /\ s[p] \in cls THEN RunEnd(s, p + 1, cls) ELSE p

\* RE_VAR = /([\w-]+)(?:\s*,\s*)?(.*)?/ applied to the body of a var():
\* matched = FALSE when the body holds no name character; otherwise pre is
\* the text before the match, name the first capture and fallback the second
\* (empty when it did not take part).
MatchVar(varRef) ==
    LET starts == {p \in 1..Len(varRef) : varRef[p] \in WordChars}
    IN  IF starts = {}
        THEN [matched |-> FALSE, pre |-> varRef, name |-> <<>>, fallback |-> <<>>]
        ELSE LET p  == CHOOSE q \in starts : \A q2 \in starts : q <= q2
                 e  == RunEnd(varRef, p, WordChars)
                 c  == RunEnd(varRef, e, SpaceChars)
                 fb == IF c <= Len(varRef) /\ varRef[c] = ","
                       THEN RunEnd(varRef, c + 1, SpaceChars)
                       ELSE e
             IN  [matched  |-> TRUE,
                  pre      |-> SubSeq(varRef, 1, p - 1),
                  name     |-> SubSeq(varRef, p, e - 1),
                  fallback |-> SubSeq(varRef, fb, Len(varRef))]

\* The callback of varRef.replace(RE_VAR, ...): the substituted text and the
\* warnings it emits.
ReplaceCallback(name, fallback, map) ==
    LET defined     == MapHas(map, name)
        replacement == IF defined THEN map[name] ELSE <<>>
        truthy      == defined /\ Truthy(replacement)
    IN  [warnings |-> IF ~truthy /\ ~Truthy(fallback)
                      THEN <<"undefined">> ELSE <<>>,
         result   |-> IF ~truthy /\ Truthy(fallback) THEN fallback
                      ELSE IF defined THEN replacement
                      ELSE UndefinedStr]

\* varRef.replace(RE_VAR, callback): m is the match of RE_VAR in varRef.
ReplaceMatch(varRef, map, m) ==
    IF ~m.matched
    THEN [warnings |-> <<>>, result |-> varRef]
    ELSE [warnings |-> ReplaceCallback(m.name, m.fallback, map).warnings,
          result   |-> m.pre \o ReplaceCallback(m.name, m.fallback, map).result]

ReplaceVar(varRef, map) == ReplaceMatch(varRef, map, MatchVar(varRef))

\* The test that decides whether resolveValue calls itself again.
NeedsRecursion(value) == IndexOf(value, VAR_FUNC_IDENTIFIER) # 0

\* resolveValue(value, map, settings).  The result holds the returned value,
\* the warnings passed to settings.onWarning in order, the values of all
\* invocations in order (calls), and err: "none" for a normal return,
\* "TypeError" when .body is read off an undefined balanced() result,
\* "RangeError" when the recursion exhausts the stack.
RECURSIVE resolveValue(_, _, _)

\* The return of an invocation that called itself: r is what the inner
\* invocation returned.
resolveReturn(value, ws, r) ==
    [value    |-> r.value,
     warnings |-> ws \o r.warnings,
     calls    |-> <<value>> \o r.calls,
     err      |-> r.err]

\* Lines 263-271: newValue is the value with the reference substituted.
resolveRemaining(value, map, depth, ws, newValue) ==
    IF NeedsRecursion(newValue)
    THEN resolveReturn(value, ws, resolveValue(newValue, map, depth + 1))
    ELSE [value |-> newValue, warnings |-> ws, calls |-> <<value>>,
          err |-> "none"]

\* Lines 238-264: the warnings of the invocation and the substitution;
\* rep is the result of varRef.replace(RE_VAR, ...).
resolveSubstitute(value, map, depth, balancedParens, varRef, rep) ==
    resolveRemaining(
        value, map, depth,
        (IF ~balancedParens THEN <<"missing">> ELSE <<>>)
            \o (IF varRef = <<>> THEN <<"empty">> ELSE <<>>)
            \o rep.warnings,
        SplitJoin(value, VAR_FUNC_IDENTIFIER \o <<"(">> \o varRef \o <<")">>,
                  rep.result))

\* Line 234: refMatch is balanced('(', ')', value.substring(varStartIndex)),
\* whose .body is read.
resolveBody(value, map, depth, balancedParens, refMatch) ==
    IF ~refMatch.found
    THEN [value |-> value, warnings |-> <<>>, calls |-> <<value>>,
          err |-> "TypeError"]
    ELSE resolveSubstitute(value, map, depth, balancedParens, refMatch.body,
                           ReplaceVar(refMatch.body, map))

resolveValue(value, map, depth) ==
    IF depth > MaxDepth
    THEN [value |-> value, warnings |-> <<>>, calls |-> <<>>, err |-> "RangeError"]
    ELSE resolveBody(
             value, map, depth,
             balanced(value).found,
             balanced(Substring(value,
                          IndexOf(value, VAR_FUNC_IDENTIFIER \o <<"(">>))))

\* ------------------------------------------------------------------------
\* The rule tree
\* ------------------------------------------------------------------------

\* A declaration-list entry: a declaration, or a comment (which has no
\* property and no value: both read as undefined, here the empty string).
Decl(property, value) ==
    [type |-> "declaration", property |-> property, value |-> value]

CommentDecl == [type |-> "comment", property |-> <<>>, value |-> <<>>]

\* Rule nodes.  Every node carries all fields; the fields a node kind does
\* not have in the program (rule.declarations of a media rule, ...) are
\* empty here and read only behind the Has* tests below.
Rule(selectors, declarations) ==
    [type |-> "rule", selectors |-> selectors, declarations |-> declarations,
     keyframes |-> <<>>, rules |-> <<>>]

FontFace(declarations) ==
    [type |-> "font-face", selectors |-> <<>>, declarations |-> declarations,
     keyframes |-> <<>>, rules |-> <<>>]

Keyframes(keyframes) ==
    [type |-> "keyframes", selectors |-> <<>>, declarations |-> <<>>,
     keyframes |-> keyframes, rules |-> <<>>]

Keyframe(declarations) == [type |-> "keyframe", declarations |-> declarations]

Media(rules) ==
    [type |-> "media", selectors |-> <<>>, declarations |-> <<>>,
     keyframes |-> <<>>, rules |-> rules]

CommentRule ==
    [type |-> "comment", selectors |-> <<>>, declarations |-> <<>>,
     keyframes |-> <<>>, rules |-> <<>>]

\* if (rule.declarations): the node kinds that own a declaration list.
HasDeclarations(rule) == rule.type \in {"rule", "font-face"}

\* if (rule.keyframes)
HasKeyframes(rule) == rule.type = "keyframes"

\* if (rule.rules)
HasRules(rule) == rule.type = "media"

\* reVarProp = /^--/ tested on a property (undefined reads "undefined").
reVarProp(property) == StartsAt(property, VAR_PROP_IDENTIFIER, 1)

\* reVarVal = /^var(.*)/ tested on a value: the parenthesis of the pattern
\* is a capture group, so the test is "starts with var".
reVarVal(value) == StartsAt(value, VAR_FUNC_IDENTIFIER, 1)

\* d => reVarProp.test(d.property) || reVarVal.test(d.value)
IsVarDecl(d) == reVarProp(d.property) \/ reVarVal(d.value)

AnyVarDecl(declarations) ==
    \E k \in 1..Len(declarations) : IsVarDecl(declarations[k])

\* filterVars(rules): the retained rules, and err = "TypeError" when
\* r.declarations.length is read off a nested rule without declarations.
RECURSIVE filterVars(_)
filterVars(rules) ==
    IF rules = <<>>
    THEN [rules |-> <<>>, err |-> "none"]
    ELSE
    LET rule == Head(rules)
        one  ==
            IF HasDeclarations(rule)
            THEN [keep |-> AnyVarDecl(rule.declarations), rule |-> rule,
                  err |-> "none"]
            ELSE IF HasKeyframes(rule)
            THEN [keep |-> \E k \in 1..Len(rule.keyframes) :
                               AnyVarDecl(rule.keyframes[k].declarations),
                  rule |-> rule, err |-> "none"]
            ELSE IF HasRules(rule)
            THEN LET inner == filterVars(rule.rules)
                     bad   == \E k \in 1..Len(inner.rules) :
                                  ~HasDeclarations(inner.rules[k])
                     kept  == SelectSeq(inner.rules,
                                  LAMBDA r : Len(r.declarations) > 0)
                 IN  IF inner.err # "none" \/ bad
                     THEN [keep |-> FALSE, rule |-> rule, err |-> "TypeError"]
                     ELSE [keep |-> Len(kept) > 0,
                           rule |-> [rule EXCEPT !.rules = kept],
                           err  |-> "none"]
            ELSE [keep |-> TRUE, rule |-> rule, err |-> "none"]
    IN  IF one.err # "none"
        THEN [rules |-> rules, err |-> one.err]
        ELSE LET rest == filterVars(Tail(rules))
             IN  [rules |-> IF one.keep THEN <<one.rule>> \o rest.rules
                            ELSE rest.rules,
                  err   |-> rest.err]

\* ------------------------------------------------------------------------
\* Define variables (the first pass)
\* ------------------------------------------------------------------------

RootSelector == ":root"

\* rule.selectors[0] === ':root' without the test of rule.selectors.length
IsRootRuleMutant(rule) ==
    /\ rule.type = "rule"
    /\ Len(rule.selectors) >= 1
    /\ rule.selectors[1] = RootSelector

\* The rules the first pass reads: type 'rule' with the selector list
\* [':root'].
IsRootRule(rule) ==
    /\ rule.type = "rule"
    /\ Len(rule.selectors) = 1
    /\ rule.selectors[1] = RootSelector

\* prop && prop.indexOf(VAR_PROP_IDENTIFIER) === 0
IsDefinition(decl) ==
    Truthy(decl.property) /\ IndexOf(decl.property, VAR_PROP_IDENTIFIER) = 1

\* map[prop] = value only when prop is not yet in the map
MapWriteMutant(map, prop, value) ==
    IF MapHas(map, prop) THEN map ELSE MapSet(map, prop, value)

\* map[prop] = value
MapWrite(map, prop, value) == MapSet(map, prop, value)

\* rule.declarations.forEach(...): the map after the declarations from
\* position i on are read.
RECURSIVE CollectDecls(_, _, _)
CollectDecls(map, declarations, i) ==
    IF i > Len(declarations)
    THEN map
    ELSE CollectDecls(
             IF IsDefinition(declarations[i])
             THEN MapWrite(map, declarations[i].property, declarations[i].value)
             ELSE map,
             declarations, i + 1)

\* The declarations of a root rule after the pass: with preserve = false
\* the definitions are spliced out.
RemoveDefinitionsMutant(declarations, preserve) ==
    IF preserve
    THEN SelectSeq(declarations, LAMBDA d : ~IsDefinition(d))
    ELSE declarations

RemoveDefinitions(declarations, preserve) ==
    IF ~preserve
    THEN SelectSeq(declarations, LAMBDA d : ~IsDefinition(d))
    ELSE declarations

\* cssTree.stylesheet.rules.forEach(...) of the first pass.
RECURSIVE DefineVariables(_, _, _)
DefineVariables(rules, map, preserve) ==
    IF rules = <<>>
    THEN [rules |-> <<>>, map |-> map]
    ELSE LET rule == Head(rules)
             root == IsRootRule(rule)
             m2   == IF root THEN CollectDecls(map, rule.declarations, 1)
                     ELSE map
             r2   == IF root
                     THEN [rule EXCEPT !.declarations =
                               RemoveDefinitions(rule.declarations, preserve)]
                     ELSE rule
             rest == DefineVariables(Tail(rules), m2, preserve)
         IN  [rules |-> <<r2>> \o rest.rules, map |-> rest.map]

\* ------------------------------------------------------------------------
\* settings.variables (the overrides)
\* ------------------------------------------------------------------------

\* key.replace(/^-+/, '')
RECURSIVE StripHyphens(_)
StripHyphens(key) ==
    IF key # <<>> /\ Head(key) = "-" THEN StripHyphens(Tail(key)) ELSE key

\* `--${key.replace(/^-+/, '')}`
NormalizeName(key) == VAR_PROP_IDENTIFIER \o StripHyphens(key)

\* Object.keys(settings.variables).forEach(...): variables is the sequence
\* of the object's entries in key order; the map after the entries from
\* position i on are written.
RECURSIVE MergeVariables(_, _, _)
MergeVariables(map, variables, i) ==
    IF i > Len(variables)
    THEN map
    ELSE MergeVariables(
             MapWrite(map, NormalizeName(variables[i].key), variables[i].value),
             variables, i + 1)

\* newRule: one declaration per entry of settings.variables.
NewRule(variables) ==
    Rule(<<RootSelector>>,
         [i \in 1..Len(variables) |->
              Decl(NormalizeName(variables[i].key), variables[i].value)])

\* The rule list after the overrides are handled.
AppendNewRule(rules, variables, preserve) ==
    IF Len(variables) > 0 /\ preserve
    THEN Append(rules, NewRule(variables))
    ELSE rules

\* ------------------------------------------------------------------------
\* walkCss: the declaration lists of the tree, in visiting order
\* ------------------------------------------------------------------------

\* A path names one declaration list: <<r>> the list of top-level rule r,
\* <<r, k>> the list of keyframe k of keyframes rule r, <<r>> \o p the list
\* p names among the nested rules of container r.
RECURSIVE DeclPathsFrom(_, _)
DeclPathsFrom(rules, r) ==
    IF r > Len(rules)
    THEN <<>>
    ELSE LET rule == rules[r]
             here ==
                 IF HasRules(rule)
                 THEN LET inner == DeclPathsFrom(rule.rules, 1)
                      IN  [k \in 1..Len(inner) |-> <<r>> \o inner[k]]
                 ELSE IF HasKeyframes(rule)
                 THEN [k \in 1..Len(rule.keyframes) |-> <<r, k>>]
                 ELSE IF HasDeclarations(rule)
                 THEN << <<r>> >>
                 ELSE <<>>
         IN  here \o DeclPathsFrom(rules, r + 1)

DeclPaths(rules) == DeclPathsFrom(rules, 1)

RECURSIVE GetDecls(_, _)
GetDecls(rules, path) ==
    LET rule == rules[path[1]]
    IN  IF Len(path) = 1
        THEN rule.declarations
        ELSE IF HasKeyframes(rule)
        THEN rule.keyframes[path[2]].declarations
        ELSE GetDecls(rule.rules, Tail(path))

RECURSIVE SetDecls(_, _, _)
SetDecls(rules, path, declarations) ==
    LET rule == rules[path[1]]
    IN  IF Len(path) = 1
        THEN [rules EXCEPT ![path[1]].declarations = declarations]
        ELSE IF HasKeyframes(rule)
        THEN [rules EXCEPT
                  ![path[1]].keyframes[path[2]].declarations = declarations]
        ELSE [rules EXCEPT
                  ![path[1]].rules = SetDecls(rule.rules, Tail(path), declarations)]

\* ------------------------------------------------------------------------
\* Resolve variables (the second pass): the visitor of one declaration list
\* ------------------------------------------------------------------------

\* !value || value.indexOf(VAR_FUNC_IDENTIFIER + '(') === -1 is false
HasVarFunc(value) ==
    Truthy(value) /\ IndexOf(value, VAR_FUNC_IDENTIFIER \o <<"(">>) # 0

InsertAt(s, p, e) == SubSeq(s, 1, p - 1) \o <<e>> \o SubSeq(s, p, Len(s))

\* declarations.splice(i, 0, resolved) inserts after, not before, position i
SpliceResolvedMutant(declarations, i, resolved) ==
    InsertAt(declarations, i + 1, resolved)

\* declarations.splice(i, 0, resolved): the new declaration takes position i
\* and the original moves to i + 1.
SpliceResolved(declarations, i, resolved) ==
    InsertAt(declarations, i, resolved)

\* The for loop of the visitor from position i on: the list after the loop,
\* the warnings and resolveValue invocations it made (after ws and cs, those
\* made before position i), and the error that ended it, if any.
RECURSIVE VisitFrom(_, _, _, _, _, _)

\* Lines 146-162: res is what resolveValue returned for declarations[i].
VisitResolved(declarations, i, map, preserve, ws, cs, res) ==
    IF res.err # "none"
    THEN [declarations |-> declarations, warnings |-> ws \o res.warnings,
          calls |-> cs \o res.calls, err |-> res.err]
    ELSE IF res.value = UndefinedStr
    THEN VisitFrom(declarations, i + 1, map, preserve,
                   ws \o res.warnings, cs \o res.calls)
    ELSE IF ~preserve
    THEN VisitFrom([declarations EXCEPT ![i].value = res.value], i + 1, map,
                   preserve, ws \o res.warnings, cs \o res.calls)
    ELSE VisitFrom(SpliceResolved(declarations, i,
                       [declarations[i] EXCEPT !.value = res.value]),
                   i + 2, map, preserve, ws \o res.warnings, cs \o res.calls)

VisitFrom(declarations, i, map, preserve, ws, cs) ==
    IF i > Len(declarations)
    THEN [declarations |-> declarations, warnings |-> ws, calls |-> cs,
          err |-> "none"]
    ELSE IF declarations[i].type # "declaration"
            \/ ~HasVarFunc(declarations[i].value)
    THEN VisitFrom(declarations, i + 1, map, preserve, ws, cs)
    ELSE VisitResolved(declarations, i, map, preserve, ws, cs,
                       resolveValue(declarations[i].value, map, 0))

\* The visitor walkCss is given, applied to one declaration list.
VisitDeclarations(declarations, map, preserve) ==
    VisitFrom(declarations, 1, map, preserve, <<>>, <<>>)

\* ------------------------------------------------------------------------
\* Inputs of the model
\* ------------------------------------------------------------------------

\* The longest rule list (top level) of an input tree.
MaxRules == 2

Var(body) == VAR_FUNC_IDENTIFIER \o <<"(">> \o body \o <<")">>

NameX == <<"-", "-", "x">>

NameY == <<"-", "-", "y">>

NameZ == <<"-", "-", "z">>

PropP == <<"p">>

\* A value with the letters var and no parenthesis.
WordValue == <<"v", "a", "r", "x">>

\* :root{--x:1; --y:var(--x)}
RootA == Rule(<<RootSelector>>, <<Decl(NameX, <<"1">>), Decl(NameY, Var(NameX))>>)

\* :root{--x:2; /* comment */}
RootB == Rule(<<RootSelector>>, <<Decl(NameX, <<"2">>), CommentDecl>>)

\* a{p:var(--x); p:1; p:var(--z); p:var(--z, 2)}
RefRule ==
    Rule(<<"a">>, <<Decl(PropP, Var(NameX)), Decl(PropP, <<"1">>),
                    Decl(PropP, Var(NameZ)),
                    Decl(PropP, Var(NameZ \o <<",", " ", "2">>))>>)

\* a{p:varx}
WordRule == Rule(<<"a">>, <<Decl(PropP, WordValue)>>)

\* a{p:1}
PlainRule == Rule(<<"a">>, <<Decl(PropP, <<"1">>)>>)

\* a{p:var(--x}
UnbalancedRule == Rule(<<"a">>, <<Decl(PropP, <<"v", "a", "r", "(", "-", "-", "x">>)>>)

\* @font-face{p:1; p:1 var(--x)}
FontFaceRule ==
    FontFace(<<Decl(PropP, <<"1">>), Decl(PropP, <<"1", " ">> \o Var(NameX))>>)

\* @keyframes k{from{p:var(--y)} to{p:1}}
KeyframesRule ==
    Keyframes(<<Keyframe(<<Decl(PropP, Var(NameY))>>),
                Keyframe(<<Decl(PropP, <<"1">>)>>)>>)

\* @media m{a{p:var(--x)} a{p:1}}
MediaRule ==
    Media(<<Rule(<<"a">>, <<Decl(PropP, Var(NameX))>>), PlainRule>>)

\* a{--x:3}
OtherSelectorRule == Rule(<<"a">>, <<Decl(NameX, <<"3">>)>>)

\* :root, a{--x:3}
TwoSelectorsRule == Rule(<<RootSelector, "a">>, <<Decl(NameX, <<"3">>)>>)

\* @media m{:root{--x:3}}
NestedRootRule == Media(<<Rule(<<RootSelector>>, <<Decl(NameX, <<"3">>)>>)>>)

\* @media m{/* comment */ a{p:var(--x)}}
MediaCommentRule ==
    Media(<<CommentRule, Rule(<<"a">>, <<Decl(PropP, Var(NameX))>>)>>)

\* @media m{@keyframes k{from{p:var(--y)} to{p:1}}}
MediaKeyframesRule == Media(<<KeyframesRule>>)

\* @media m{a{p:1}}
MediaPlainRule == Media(<<PlainRule>>)

\* @media n{@media m{a{p:var(--x)} a{p:1}}}
MediaNestedRule == Media(<<MediaRule>>)

RulePool ==
    {RootA, RootB, RefRule, WordRule, PlainRule, UnbalancedRule, FontFaceRule,
     KeyframesRule, MediaRule, OtherSelectorRule, TwoSelectorsRule,
     NestedRootRule, MediaCommentRule, MediaKeyframesRule, MediaPlainRule,
     MediaNestedRule}

\* The input trees: the rule lists of 1..MaxRules rules of the pool.
Trees == UNION {[1..n -> RulePool] : n \in 1..MaxRules}

Entry(key, value) == [key |-> key, value |-> value]

\* settings.variables: {}, {x: '2'}, {'-z': '1'}, {'--z': ''},
\* {'---y': 'varx'}
VariablesPool ==
    {<<>>,
     <<Entry(<<"x">>, <<"2">>)>>,
     <<Entry(<<"-", "z">>, <<"1">>)>>,
     <<Entry(<<"-", "-", "z">>, <<>>)>>,
     <<Entry(<<"-", "-", "-", "y">>, WordValue)>>}

EmptyMap == [n \in {} |-> <<>>]

\* ------------------------------------------------------------------------
\* State
\* ------------------------------------------------------------------------

VARIABLES
    pc,        \* transformVars: the position in the function
    input,     \* transformVars: the tree parseCss returned
    settings,  \* transformVars: onlyVars, preserve, variables
    cssTree,   \* transformVars: cssTree.stylesheet.rules
    map,       \* transformVars: the variable map
    todo,      \* transformVars: the declaration lists walkCss has yet to visit
    warnings,  \* transformVars: the messages passed to settings.onWarning
    calls,     \* transformVars: the values resolveValue was invoked on
    err,       \* transformVars: the exception that ended the call, or "none"
    rvPc,      \* resolveValue alone: "call" before, "returned" after
    rvValue,   \* resolveValue alone: the value argument
    rvMap,     \* resolveValue alone: the map argument
    rvOut,     \* resolveValue alone: what the call produced
    cvPc,        \* onComplete: the position in the handler
    cssArray,    \* onComplete: the source chunks, one per source node
    domFails,    \* onComplete: the DOM update of the try block raises
    cssText,     \* onComplete: the local cssText
    lastIndex,   \* onComplete: cssMarker.lastIndex
    retry,       \* onComplete: the chunk the catch block is to retry next
    errorThrown, \* onComplete: errorThrown of the catch block
    errors,      \* onComplete: the calls of settings.onError
    caught,      \* onComplete: what the try block raised, or "none"
    completed    \* onComplete: the call of settings.onComplete

tvVars == <<pc, input, settings, cssTree, map, todo, warnings, calls, err>>

rvVars == <<rvPc, rvValue, rvMap, rvOut>>

cvVars == <<cvPc, cssArray, domFails, cssText, lastIndex, retry, errorThrown,
            errors, caught, completed>>

vars == <<tvVars, rvVars, cvVars>>

NoResult == [value |-> <<>>, warnings |-> <<>>, calls |-> <<>>, err |-> "none"]

\* No transformVars call is under way.
TvIdle ==
    /\ pc = "idle"
    /\ input = <<>>
    /\ settings = [onlyVars |-> FALSE, preserve |-> FALSE, variables |-> <<>>]
    /\ cssTree = <<>>
    /\ map = EmptyMap
    /\ todo = <<>>
    /\ warnings = <<>>
    /\ calls = <<>>
    /\ err = "none"

\* No separate resolveValue call is under way.
RvIdle ==
    /\ rvPc = "idle"
    /\ rvValue = <<>>
    /\ rvMap = EmptyMap
    /\ rvOut = NoResult

NotCompleted == [called |-> FALSE, cssText |-> <<>>]

\* No onComplete handler is under way.
CvIdle ==
    /\ cvPc = "idle"
    /\ cssArray = <<>>
    /\ domFails = FALSE
    /\ cssText = <<>>
    /\ lastIndex = 0
    /\ retry = 0
    /\ errorThrown = FALSE
    /\ errors = <<>>
    /\ caught = "none"
    /\ completed = NotCompleted

\* ------------------------------------------------------------------------
\* transformVars
\* ------------------------------------------------------------------------

\* The state after parseCss(cssText) returned the tree.
Init ==
    /\ pc = "parsed"
    /\ input \in Trees
    /\ settings \in [onlyVars : BOOLEAN, preserve : BOOLEAN,
                     variables : VariablesPool]
    /\ cssTree = input
    /\ map = EmptyMap
    /\ todo = <<>>
    /\ warnings = <<>>
    /\ calls = <<>>
    /\ err = "none"
    /\ RvIdle
    /\ CvIdle

\* if (settings.onlyVars) cssTree.stylesheet.rules = filterVars(...)
RemoveNonVars ==
    /\ pc = "parsed"
    /\ \E f \in {IF settings.onlyVars THEN filterVars(cssTree)
                   ELSE [rules |-> cssTree, err |-> "none"]} :
           /\ cssTree' = f.rules
           /\ err' = f.err
           /\ pc' = IF f.err = "none" THEN "filtered" ELSE "threw"
    /\ UNCHANGED <<input, settings, map, todo, warnings, calls, rvVars, cvVars>>

\* cssTree.stylesheet.rules.forEach(...): define variables
DefineVars ==
    /\ pc = "filtered"
    /\ \E d \in {DefineVariables(cssTree, map, settings.preserve)} :
           /\ cssTree' = d.rules
           /\ map' = d.map
    /\ pc' = "defined"
    /\ UNCHANGED <<input, settings, todo, warnings, calls, err, rvVars, cvVars>>

\* Handle variables defined in settings.variables, then enter walkCss.
HandleVariables ==
    /\ pc = "defined"
    /\ map' = MergeVariables(map, settings.variables, 1)
    /\ cssTree' = AppendNewRule(cssTree, settings.variables, settings.preserve)
    /\ todo' = DeclPaths(cssTree')
    /\ pc' = "walk"
    /\ UNCHANGED <<input, settings, warnings, calls, err, rvVars, cvVars>>

\* walkCss invokes the visitor on the next declaration list.
Visit ==
    /\ pc = "walk"
    /\ todo # <<>>
    /\ \E v \in {VisitDeclarations(GetDecls(cssTree, Head(todo)), map,
                                    settings.preserve)} :
           /\ cssTree' = SetDecls(cssTree, Head(todo), v.declarations)
           /\ warnings' = warnings \o v.warnings
           /\ calls' = calls \o v.calls
           /\ err' = v.err
           /\ pc' = IF v.err = "none" THEN "walk" ELSE "threw"
    /\ todo' = Tail(todo)
    /\ UNCHANGED <<input, settings, map, rvVars, cvVars>>

\* return stringifyCss(cssTree)
Return ==
    /\ pc = "walk"
    /\ todo = <<>>
    /\ pc' = "done"
    /\ UNCHANGED <<input, settings, cssTree, map, todo, warnings, calls, err,
                   rvVars, cvVars>>

Next ==
    \/ RemoveNonVars
    \/ DefineVars
    \/ HandleVariables
    \/ Visit
    \/ Return

Spec == Init /\ [][Next]_vars

\* ------------------------------------------------------------------------
\* resolveValue on its own: one call on a value and a map
\* ------------------------------------------------------------------------

\* The longest chain --v1: value; --v2: var(--v1); ... of a map.
MaxChain == 3

\* The names of a chain, in order.
ChainLetters == <<"x", "y", "z", "a", "b", "c">>

ChainName(k) == VAR_PROP_IDENTIFIER \o <<ChainLetters[k]>>

\* The values a chain starts from: plain text, text with a space, and a word
\* that holds the letters var.
ChainValues == {<<"1">>, <<"1", " ", "2">>, WordValue}

\* {--v1: value, --v2: var(--v1), ..., --vn: var(--v(n-1))}
ChainMap(n, value) ==
    [name \in {ChainName(k) : k \in 1..n} |->
         IF name = ChainName(1) THEN value
         ELSE Var(ChainName((CHOOSE k \in 2..n : ChainName(k) = name) - 1))]

\* {--x: ''}, {--x: var(--y), --y: var(--x)}
EmptyValueMap == [name \in {NameX} |-> <<>>]

CycleMap == [name \in {NameX, NameY} |-> IF name = NameX THEN Var(NameY) ELSE Var(NameX)]

ResolveMaps ==
    {ChainMap(n, value) : n \in 1..MaxChain, value \in ChainValues}
        \cup {EmptyMap, EmptyValueMap, CycleMap}

Fallbacks == {<<"2">>}

WithFallback(name, fallback) == Var(name \o <<",", " ">> \o fallback)

\* var(name), var(name, fallback) for the chain names, and the values with
\* an anomaly: var(--x , var() , var( ) , var((--x)
ResolveValues ==
    {Var(ChainName(k)) : k \in 1..MaxChain}
        \cup {WithFallback(ChainName(k), f) : k \in 1..MaxChain, f \in Fallbacks}
        \cup {<<"v", "a", "r", "(", "-", "-", "x">>,
              Var(<<>>),
              Var(<<" ">>),
              <<"v", "a", "r", "(", "(", "-", "-", "x", ")">>}

InitResolve ==
    /\ TvIdle
    /\ CvIdle
    /\ rvPc = "call"
    /\ rvValue \in ResolveValues
    /\ rvMap \in ResolveMaps
    /\ rvOut = NoResult

\* resolveValue(value, map, settings) is called and returns or raises.
ResolveCall ==
    /\ rvPc = "call"
    /\ rvOut' = resolveValue(rvValue, rvMap, 0)
    /\ rvPc' = "returned"
    /\ UNCHANGED <<rvValue, rvMap, tvVars, cvVars>>

NextResolve == ResolveCall

SpecResolve == InitResolve /\ [][NextResolve]_vars

\* ------------------------------------------------------------------------
\* cssVars: the onComplete handler given to getCssData
\* ------------------------------------------------------------------------

\* The most source chunks of one call.
MaxChunks == 3

\* A chunk and the text are sequences of tokens.  "c" is a character of CSS
\* without variable syntax, "$" a dollar sign, "!" a fragment no stylesheet
\* can hold (parseCss raises on it), "V" a reference var(--x) to a defined
\* variable, "D" the rule :root{--a:varx}, "R" a reference var(--a), "T" and
\* "U" what the transform writes for "V" and "R".  Marker(i) is the comment
\* /*__CSSVARSPONYFILL-<i-1>__*/ that stands for chunk i.
MarkerTokens == <<"M1", "M2", "M3", "M4", "M5", "M6">>

Marker(i) == MarkerTokens[i]

IsMarker(tok) == \E i \in 1..Len(MarkerTokens) : MarkerTokens[i] = tok

\* The capture group of cssMarker: the chunk a marker stands for.
MarkerIndex(tok) == CHOOSE i \in 1..Len(MarkerTokens) : MarkerTokens[i] = tok

\* The length of a marker comment, in characters.
MarkerWidth == 25

\* The length of a token, in characters.
Width(tok) ==
    IF IsMarker(tok) THEN MarkerWidth
    ELSE IF tok \in {"V", "R"} THEN 8
    ELSE IF tok = "U" THEN 9
    ELSE IF tok = "D" THEN 15
    ELSE 1

\* The 0-based character offset of token k of text.
RECURSIVE Offset(_, _)
Offset(text, k) ==
    IF k <= 1 THEN 0 ELSE Offset(text, k - 1) + Width(text[k - 1])

Holds(text, tok) == \E k \in 1..Len(text) : text[k] = tok

\* regex.cssVars.test(css): a :root definition or a var(-- reference.
cssVarsTest(css) == Holds(css, "V") \/ Holds(css, "D") \/ Holds(css, "R")

\* cssArray.map(...).join('') from chunk i on.
RECURSIVE CoalesceFrom(_, _)
CoalesceFrom(array, i) ==
    IF i > Len(array)
    THEN <<>>
    ELSE (IF cssVarsTest(array[i]) THEN array[i] ELSE <<Marker(i)>>)
             \o CoalesceFrom(array, i + 1)

\* transformCss(text, ...) raises: the text does not parse, or it resolves a
\* reference to a value with the letters var (resolveValue's TypeError).
TransformRaises(text) ==
    Holds(text, "!") \/ (Holds(text, "D") /\ Holds(text, "R"))

\* What transformCss(text, ...) returns when it does not raise: the
\* references resolved, comments (the markers) and all other text kept.
TransformText(text) ==
    [k \in 1..Len(text) |->
         IF text[k] = "V" THEN "T" ELSE IF text[k] = "R" THEN "U" ELSE text[k]]

\* cssMarker.exec(text) with the flag g: the first marker at or after
\* lastIndex (k = 0: null), and the lastIndex it leaves.
ExecMarker(text, from) ==
    LET ks == {k \in 1..Len(text) : IsMarker(text[k]) /\ Offset(text, k) >= from}
    IN  IF ks = {}
        THEN [k |-> 0, lastIndex |-> 0]
        ELSE [k |-> CHOOSE k \in ks : \A k2 \in ks : k <= k2,
              lastIndex |-> Offset(text, CHOOSE k \in ks : \A k2 \in ks : k <= k2)
                                + MarkerWidth]

\* The replacement patterns of String.prototype.replace in a replacement
\* string: "$$" inserts one "$".
RECURSIVE ExpandReplacement(_)
ExpandReplacement(s) ==
    IF s = <<>>
    THEN <<>>
    ELSE IF Len(s) >= 2 /\ s[1] = "$" /\ s[2] = "$"
    THEN <<"$">> \o ExpandReplacement(SubSeq(s, 3, Len(s)))
    ELSE <<Head(s)>> \o ExpandReplacement(Tail(s))

\* text.replace(matchedText, replacement): the first occurrence of the
\* matched marker replaced.
ReplaceFirst(text, tok, replacement) ==
    LET k == CHOOSE k \in 1..Len(text) :
                 text[k] = tok /\ \A k2 \in 1..(k - 1) : text[k2] # tok
    IN  SubSeq(text, 1, k - 1) \o ExpandReplacement(replacement)
            \o SubSeq(text, k + 1, Len(text))

\* nodeArray: the source node of each chunk.
NodeArray == <<"node1", "node2", "node3", "node4", "node5", "node6">>

\* const errorNode = nodeArray[i - 0]
ErrorNode(i) == NodeArray[i]

\* if (errorThrown) instead of if (!errorThrown)
NeedsOriginalMutant(thrown) == thrown

\* if (!errorThrown): the original error is handled
NeedsOriginal(thrown) == ~thrown

\* The chunks: inert ones ('' , three characters, one character more than a
\* marker, "$$", one that does not parse) and ones with variable syntax.
LongChunk == [k \in 1..(MarkerWidth + 1) |-> "c"]

ChunkPool ==
    {<<>>, <<"c", "c", "c">>, LongChunk, <<"$", "$">>, <<"!">>,
     <<"V">>, <<"V", "!">>, <<"D">>, <<"R">>}

ChunkArrays == UNION {[1..n -> ChunkPool] : n \in 1..MaxChunks}

\* onComplete(cssText, cssArray, nodeArray) is entered.
InitCssVars ==
    /\ TvIdle
    /\ RvIdle
    /\ cvPc = "coalesce"
    /\ cssArray \in ChunkArrays
    /\ domFails \in BOOLEAN
    /\ cssText = <<>>
    /\ lastIndex = 0
    /\ retry = 0
    /\ errorThrown = FALSE
    /\ errors = <<>>
    /\ caught = "none"
    /\ completed = NotCompleted

\* cssText = cssArray.map(...).join('')
Coalesce ==
    /\ cvPc = "coalesce"
    /\ cssText' = CoalesceFrom(cssArray, 1)
    /\ cvPc' = "transform"
    /\ UNCHANGED <<cssArray, domFails, lastIndex, retry, errorThrown, errors,
                   caught, completed, tvVars, rvVars>>

\* cssText = transformCss(cssText, {...}), the first statement of the try
\* block
Transform ==
    /\ cvPc = "transform"
    /\ IF TransformRaises(cssText)
       THEN /\ caught' = "transformCss"
            /\ cvPc' = "catch"
            /\ retry' = 1
            /\ UNCHANGED cssText
       ELSE /\ cssText' = TransformText(cssText)
            /\ cvPc' = "markers"
            /\ UNCHANGED <<caught, retry>>
    /\ UNCHANGED <<cssArray, domFails, lastIndex, errorThrown, errors,
                   completed, tvVars, rvVars>>

\* cssMarker.exec(cssText) and, on a match, one turn of the while loop
ReplaceMarker ==
    /\ cvPc = "markers"
    /\ \E m \in {ExecMarker(cssText, lastIndex)} :
           /\ lastIndex' = m.lastIndex
           /\ IF m.k = 0
              THEN /\ cvPc' = "dom"
                   /\ UNCHANGED cssText
              ELSE /\ cssText' = ReplaceFirst(cssText, cssText[m.k],
                                     cssArray[MarkerIndex(cssText[m.k])])
                   /\ UNCHANGED cvPc
    /\ UNCHANGED <<cssArray, domFails, retry, errorThrown, errors, caught,
                   completed, tvVars, rvVars>>

\* if (settings.updateDOM && nodeArray && nodeArray.length) {...}, the rest
\* of the try block
UpdateDOM ==
    /\ cvPc = "dom"
    /\ IF domFails
       THEN /\ caught' = "dom"
            /\ cvPc' = "catch"
            /\ retry' = 1
       ELSE /\ cvPc' = "complete"
            /\ UNCHANGED <<caught, retry>>
    /\ UNCHANGED <<cssArray, domFails, cssText, lastIndex, errorThrown, errors,
                   completed, tvVars, rvVars>>

\* One turn of cssArray.forEach(...) in the catch block.
RetryChunk ==
    /\ cvPc = "catch"
    /\ retry <= Len(cssArray)
    /\ IF TransformRaises(cssArray[retry])
       THEN /\ errorThrown' = TRUE
            /\ errors' = Append(errors, [message |-> "chunk",
                                         node |-> ErrorNode(retry)])
       ELSE UNCHANGED <<errorThrown, errors>>
    /\ retry' = retry + 1
    /\ UNCHANGED <<cvPc, cssArray, domFails, cssText, lastIndex, caught,
                   completed, tvVars, rvVars>>

\* if (!errorThrown) handleError(err.message || err), the end of the catch
\* block
HandleOriginal ==
    /\ cvPc = "catch"
    /\ retry > Len(cssArray)
    /\ errors' = IF NeedsOriginal(errorThrown)
                 THEN Append(errors, [message |-> caught, node |-> "undefined"])
                 ELSE errors
    /\ cvPc' = "complete"
    /\ UNCHANGED <<cssArray, domFails, cssText, lastIndex, retry, errorThrown,
                   caught, completed, tvVars, rvVars>>

\* settings.onComplete(cssText, styleNode)
CallOnComplete ==
    /\ cvPc = "complete"
    /\ completed' = [called |-> TRUE, cssText |-> cssText]
    /\ cvPc' = "done"
    /\ UNCHANGED <<cssArray, domFails, cssText, lastIndex, retry, errorThrown,
                   errors, caught, tvVars, rvVars>>

NextCssVars ==
    \/ Coalesce
    \/ Transform
    \/ ReplaceMarker
    \/ UpdateDOM
    \/ RetryChunk
    \/ HandleOriginal
    \/ CallOnComplete

SpecCssVars == InitCssVars /\ [][NextCssVars]_vars

\* ------------------------------------------------------------------------
\* Vocabulary of the properties
\* ------------------------------------------------------------------------

VarOpen == VAR_FUNC_IDENTIFIER \o <<"(">>

\* A value that holds the variable-function token followed by "(".
ContainsVarFunc(value) == IndexOf(value, VarOpen) # 0

\* A declaration whose property starts with the sigil.
DefinitionDecl(d) == d.type = "declaration" /\ StartsAt(d.property, <<"-", "-">>, 1)

\* A declaration whose value holds var( anywhere.
ReferenceSite(d) == d.type = "declaration" /\ ContainsVarFunc(d.value)

Relevant(declarations) ==
    \E j \in 1..Len(declarations) :
        DefinitionDecl(declarations[j]) \/ ReferenceSite(declarations[j])

RuleRelevant(rule) ==
    IF rule.type = "keyframes"
    THEN \E k \in 1..Len(rule.keyframes) : Relevant(rule.keyframes[k].declarations)
    ELSE Relevant(rule.declarations)

\* The declaration lists of a tree, as a set of paths.
PathSet(rules) == {DeclPaths(rules)[k] : k \in 1..Len(DeclPaths(rules))}

\* The variable map the two passes are to produce, read off the input and
\* the overrides name by name: the last override that normalizes to the
\* name, else the last definition of the name in a top-level :root rule.
RootDefinitions(rules) ==
    UNION {{<<r, j>> : j \in {j \in 1..Len(rules[r].declarations) :
                                  IsDefinition(rules[r].declarations[j])}} :
           r \in {r \in 1..Len(rules) : IsRootRule(rules[r])}}

Before(a, b) == a[1] < b[1] \/ (a[1] = b[1] /\ a[2] <= b[2])

ExpectedMap(rules, variables) ==
    LET defs     == RootDefinitions(rules)
        over(n)  == {i \in 1..Len(variables) : NormalizeName(variables[i].key) = n}
        where(n) == {d \in defs : rules[d[1]].declarations[d[2]].property = n}
        names    == {NormalizeName(variables[i].key) : i \in 1..Len(variables)}
                        \cup {rules[d[1]].declarations[d[2]].property : d \in defs}
    IN  [n \in names |->
             IF over(n) # {}
             THEN variables[CHOOSE i \in over(n) : \A i2 \in over(n) : i2 <= i].value
             ELSE LET d == CHOOSE d \in where(n) : \A d2 \in where(n) : Before(d2, d)
                  IN  rules[d[1]].declarations[d[2]].value]

\* A declaration as the walk leaves it with preserve = false.
ResolvedInPlace(d, m) ==
    IF ReferenceSite(d) /\ resolveValue(d.value, m, 0).value # UndefinedStr
    THEN [d EXCEPT !.value = resolveValue(d.value, m, 0).value]
    ELSE d

\* A declaration list as the walk is to leave it with preserve = true: every
\* reference site that resolves to a value stands beside a declaration with
\* the resolved value, the original first or second.
RECURSIVE ExpandDecls(_, _, _)
ExpandDecls(declarations, m, originalFirst) ==
    IF declarations = <<>>
    THEN <<>>
    ELSE (IF ResolvedInPlace(Head(declarations), m) = Head(declarations)
          THEN <<Head(declarations)>>
          ELSE IF originalFirst
          THEN <<Head(declarations), ResolvedInPlace(Head(declarations), m)>>
          ELSE <<ResolvedInPlace(Head(declarations), m), Head(declarations)>>)
         \o ExpandDecls(Tail(declarations), m, originalFirst)

\* The tree the second pass starts from when preserve = true.
PreservedBase ==
    IF settings.onlyVars THEN filterVars(input).rules ELSE input

\* The resolveValue invocations one visit of every reference site makes.
RECURSIVE ExpectedCalls(_, _)
ExpectedCalls(declarations, m) ==
    IF declarations = <<>>
    THEN <<>>
    ELSE (IF ReferenceSite(Head(declarations))
          THEN resolveValue(Head(declarations).value, m, 0).calls
          ELSE <<>>)
         \o ExpectedCalls(Tail(declarations), m)

RECURSIVE ExpectedCallsOver(_, _, _, _)
ExpectedCallsOver(rules, paths, k, m) ==
    IF k > Len(paths)
    THEN <<>>
    ELSE ExpectedCalls(GetDecls(rules, paths[k]), m)
             \o ExpectedCallsOver(rules, paths, k + 1, m)

\* ------------------------------------------------------------------------
\* Properties of transformVars
\* ------------------------------------------------------------------------

\* A value that is one reference to name n, with or without a fallback.
IsRefTo(value, n) ==
    value = Var(n) \/ \E f \in Fallbacks : value = WithFallback(n, f)

\* C1: once the overrides are merged, every override key (bare or with
\* leading hyphens) has its value in the map under '--' + bare name, and every
\* reference to that name in the tree resolves to the override value (here
\* for override values free of the letters var, the empty string included).
C1_OverridePrecedence ==
    pc \in {"walk", "done"} =>
        \A i \in {i \in 1..Len(settings.variables) :
                     IndexOf(settings.variables[i].value, VAR_FUNC_IDENTIFIER) = 0} :
            /\ MapHas(map, NormalizeName(settings.variables[i].key))
            /\ map[NormalizeName(settings.variables[i].key)]
                   = settings.variables[i].value
            /\ \A path \in PathSet(cssTree) :
                   \A j \in 1..Len(GetDecls(cssTree, path)) :
                       IsRefTo(GetDecls(cssTree, path)[j].value,
                               NormalizeName(settings.variables[i].key))
                       => /\ resolveValue(GetDecls(cssTree, path)[j].value,
                                          map, 0).err = "none"
                          /\ resolveValue(GetDecls(cssTree, path)[j].value,
                                          map, 0).value
                                 = settings.variables[i].value

\* C4 as stated: with preserve = true no declaration is removed and every
\* reference site that resolves to a value is immediately followed by a new
\* declaration with the resolved value (original first, resolved second).
C4_OriginalThenResolved ==
    (pc = "done" /\ settings.preserve) =>
        \A path \in PathSet(PreservedBase) :
            GetDecls(cssTree, path)
                = ExpandDecls(GetDecls(PreservedBase, path), map, TRUE)

\* C4 as amended: with preserve = true, when the call returns, no declaration
\* has been removed (the :root definitions included) and every reference site
\* that resolves to a value is immediately preceded by one new declaration
\* with the same property and the resolved value (resolved first, original
\* second); each reference site is resolved once, the inserted declaration
\* never.
C4_ResolvedThenOriginal ==
    (pc = "done" /\ settings.preserve) =>
        /\ \A path \in PathSet(PreservedBase) :
               GetDecls(cssTree, path)
                   = ExpandDecls(GetDecls(PreservedBase, path), map, FALSE)
        /\ calls = ExpectedCallsOver(PreservedBase, DeclPaths(PreservedBase),
                                     1, map)

\* A returned call with preserve = true that kept a :root definition and put
\* the resolved declaration p:1 right before the original p:var(--x).
C4_Witness ==
    /\ pc = "done"
    /\ settings.preserve
    /\ input = <<RootA, RefRule>>
    /\ cssTree[1].declarations[1] = Decl(NameX, <<"1">>)
    /\ cssTree[2].declarations[1] = Decl(PropP, <<"1">>)
    /\ cssTree[2].declarations[2] = Decl(PropP, Var(NameX))

\* C5: with onlyVars = true, filterVars leaves no declaration-rule without a
\* definition or reference site, and every font-face or keyframes rule of the
\* input with a definition or a reference site (var( anywhere in a value) is
\* still in the tree, with all its declarations unmodified.
C5_FilterRetention ==
    (pc = "filtered" /\ settings.onlyVars) =>
        /\ \A k \in 1..Len(cssTree) :
               cssTree[k].type = "rule" => RuleRelevant(cssTree[k])
        /\ \A r \in 1..Len(input) :
               (input[r].type \in {"font-face", "keyframes"} /\ RuleRelevant(input[r]))
               => \E k \in 1..Len(cssTree) : cssTree[k] = input[r]

\* The resolution anomalies of a value: unbalanced parentheses after var(,
\* an empty or whitespace-only var() body, an undefined variable with no
\* fallback.
Count(s, c) == Cardinality({k \in 1..Len(s) : s[k] = c})

IsAnomaly(value, m) ==
    \/ ContainsVarFunc(value) /\ Count(value, "(") # Count(value, ")")
    \/ IndexOf(value, Var(<<>>)) # 0
    \/ IndexOf(value, Var(<<" ">>)) # 0
    \/ \E n \in {NameX, NameY, NameZ} : value = Var(n) /\ ~MapHas(m, n)

\* C7: every resolveValue invocation on a value with a resolution anomaly
\* is reported through onWarning and does not raise: the call goes on.
C7_WarningsNeverAbort ==
    \A k \in 1..Len(calls) :
        IsAnomaly(calls[k], map) =>
            /\ warnings # <<>>
            /\ (k = Len(calls) => err = "none")

\* The inputs of C9: no declaration value holds var(, filtering is off,
\* preserve is on, there are no overrides.
C9_Case ==
    /\ pc # "idle"
    /\ ~settings.onlyVars
    /\ settings.preserve
    /\ settings.variables = <<>>
    /\ \A path \in PathSet(input) :
           \A j \in 1..Len(GetDecls(input, path)) :
               ~ContainsVarFunc(GetDecls(input, path)[j].value)

\* C9: on a tree without var(, with onlyVars = false, preserve = true and no
\* overrides, transformVars leaves the tree as it was, never calls
\* resolveValue or onWarning, and returns.
C9_NoOpResolution ==
    C9_Case =>
        /\ cssTree = input
        /\ warnings = <<>>
        /\ calls = <<>>
        /\ pc # "threw"

\* A returned call on :root{--x:2; /**/} a{p:varx}: a definition, a comment
\* and a value with the letters var, none with var(.
C9_Witness ==
    /\ C9_Case
    /\ pc = "done"
    /\ input = <<RootB, WordRule>>

\* C10: from the first resolveValue call on, the map is the complete map
\* (all :root definitions, then all overrides) and stays so; with the tree
\* kept in shape (onlyVars = false, preserve = false) every reference site
\* outside the consumed :root rules ends with the value the complete map
\* gives it, whether it stands before or after the definitions.
C10_TwoPass ==
    /\ (pc \in {"walk", "done"} \/ calls # <<>>)
           => map = ExpectedMap(input, settings.variables)
    /\ (pc = "done" /\ ~settings.onlyVars /\ ~settings.preserve)
           => \A path \in PathSet(input) :
                  ~(Len(path) = 1 /\ IsRootRule(input[path[1]]))
                  => GetDecls(cssTree, path)
                         = [j \in 1..Len(GetDecls(input, path)) |->
                                ResolvedInPlace(GetDecls(input, path)[j],
                                    ExpectedMap(input, settings.variables))]

\* A returned call on a{p:var(--x); ...} :root{--x:1; ...}: the reference
\* stands before its definition and was resolved to 1.
C10_Witness ==
    /\ pc = "done"
    /\ ~settings.onlyVars
    /\ ~settings.preserve
    /\ input = <<RefRule, RootA>>
    /\ cssTree[1].declarations[1] = Decl(PropP, <<"1">>)

\* ------------------------------------------------------------------------
\* Properties of resolveValue
\* ------------------------------------------------------------------------

\* C2: a reference var(name, fallback) resolves to the fallback exactly when
\* the name is absent from the map; when the name is in the map (here with a
\* value free of the letters var, the empty string included) it resolves to
\* the mapped value.
C2_FallbackExactness ==
    rvPc = "returned" =>
        \A k \in 1..MaxChain : \A f \in Fallbacks :
            (/\ rvValue = WithFallback(ChainName(k), f)
             /\ (MapHas(rvMap, ChainName(k))
                    => IndexOf(rvMap[ChainName(k)], VAR_FUNC_IDENTIFIER) = 0))
            => /\ rvOut.err = "none"
               /\ rvOut.value = IF MapHas(rvMap, ChainName(k))
                                THEN rvMap[ChainName(k)]
                                ELSE f

\* C3: in a chain --v1: value; --v2: var(--v1); ... whose value holds no
\* reference, var(--vk) resolves to exactly value, with no var( left and no
\* warning.
C3_ChainedResolution ==
    rvPc = "returned" =>
        \A n \in 1..MaxChain : \A value \in ChainValues : \A k \in 1..n :
            (/\ rvMap = ChainMap(n, value)
             /\ rvValue = Var(ChainName(k))
             /\ ~ContainsVarFunc(value))
            => /\ rvOut.err = "none"
               /\ rvOut.value = value
               /\ rvOut.warnings = <<>>
               /\ ~ContainsVarFunc(rvOut.value)

\* ------------------------------------------------------------------------
\* Properties of the onComplete handler
\* ------------------------------------------------------------------------

\* The final text the marker scheme is to give: every inert chunk as it was,
\* every other chunk transformed, in order.
RECURSIVE ExpectedFinal(_, _)
ExpectedFinal(array, i) ==
    IF i > Len(array)
    THEN <<>>
    ELSE (IF cssVarsTest(array[i]) THEN TransformText(array[i]) ELSE array[i])
             \o ExpectedFinal(array, i + 1)

\* C6: when the try block completes, the text handed to onComplete holds
\* every inert chunk unchanged at its position and no marker.
C6_MarkerRestoration ==
    (cvPc = "done" /\ caught = "none") =>
        /\ completed.cssText = ExpectedFinal(cssArray, 1)
        /\ \A k \in 1..Len(completed.cssText) : ~IsMarker(completed.cssText[k])

\* The chunks whose individual transform raises, in order.
Failing == SelectSeq([i \in 1..Len(cssArray) |-> i],
                     LAMBDA i : TransformRaises(cssArray[i]))

\* C8: when transformCss raised on the coalesced text, by the time
\* onComplete is called every chunk was retried, onError was called once per
\* chunk that raises on its own, in order and with that chunk's node, or,
\* when no chunk does, once with the original error: at least once.
C8_ParseFailureReported ==
    (cvPc \in {"complete", "done"} /\ caught = "transformCss") =>
        /\ retry = Len(cssArray) + 1
        /\ errors = IF Failing = <<>>
                    THEN <<[message |-> "transformCss", node |-> "undefined"]>>
                    ELSE [k \in 1..Len(Failing) |->
                              [message |-> "chunk", node |-> NodeArray[Failing[k]]]]
        /\ Len(errors) >= 1

\* onComplete was called after transformCss raised on the coalesced text of
\* three chunks, of which the second and the third raise on their own.
C8_Witness ==
    /\ cvPc = "done"
    /\ caught = "transformCss"
    /\ cssArray = <<<<"V">>, <<"!">>, <<"V", "!">>>>
    /\ errors = <<[message |-> "chunk", node |-> "node2"],
                  [message |-> "chunk", node |-> "node3"]>>

\* ------------------------------------------------------------------------
\* Properties of the first pass
\* ------------------------------------------------------------------------

\* A top-level rule of type 'rule' whose selector list is exactly [':root'].
ExactRoot(rule) == rule.type = "rule" /\ rule.selectors = <<":root">>

\* The positions <<r, j>> of the definitions of name n in the exact root
\* rules of a rule list.
DefinitionsOf(rules, n) ==
    {p \in UNION {{<<r, j>> : j \in 1..Len(rules[r].declarations)} :
                  r \in {r \in 1..Len(rules) : ExactRoot(rules[r])}} :
        /\ DefinitionDecl(rules[p[1]].declarations[p[2]])
        /\ rules[p[1]].declarations[p[2]].property = n}

\* The last of a set of positions, in document order.
LastOf(ps) ==
    CHOOSE p \in ps :
        \A q \in ps : q[1] < p[1] \/ (q[1] = p[1] /\ q[2] <= p[2])

\* C11: after the first pass the map holds exactly the names defined in
\* top-level rules with the selector list [':root'], each with the value of
\* its last definition in document order; with preserve = false these rules
\* have lost their definitions and nothing else; every other rule (another
\* selector, several selectors, nested in a container) is as it was.
C11_SingleRootScope ==
    pc = "defined" =>
        /\ \A n \in {NameX, NameY, NameZ} :
               /\ MapHas(map, n) <=> DefinitionsOf(PreservedBase, n) # {}
               /\ MapHas(map, n) =>
                      map[n] = PreservedBase[LastOf(DefinitionsOf(PreservedBase, n))[1]]
                                   .declarations[LastOf(DefinitionsOf(PreservedBase, n))[2]]
                                   .value
        /\ DOMAIN map \subseteq {NameX, NameY, NameZ}
        /\ Len(cssTree) = Len(PreservedBase)
        /\ \A r \in 1..Len(cssTree) :
               cssTree[r] =
                   IF ExactRoot(PreservedBase[r]) /\ ~settings.preserve
                   THEN [PreservedBase[r] EXCEPT !.declarations =
                            SelectSeq(PreservedBase[r].declarations,
                                      LAMBDA d : ~DefinitionDecl(d))]
                   ELSE PreservedBase[r]

\* The first pass has run with preserve = false on
\* :root{--x:2; /**/} :root, a{--x:3}: the map has --x: 2, the first rule
\* lost its definition, the rule with two selectors kept its own.
C11_Witness ==
    /\ pc = "defined"
    /\ ~settings.preserve
    /\ input = <<RootB, TwoSelectorsRule>>
    /\ map[NameX] = <<"2">>
    /\ cssTree = <<Rule(<<RootSelector>>, <<CommentDecl>>), TwoSelectorsRule>>

\* ------------------------------------------------------------------------
\* Properties of filterVars
\* ------------------------------------------------------------------------

\* Every declaration of the list is a definition or a reference site
\* (comments aside), and there is at least one.
OnlyRelevant(declarations) ==
    /\ Relevant(declarations)
    /\ \A j \in 1..Len(declarations) :
           declarations[j].type = "declaration"
           => DefinitionDecl(declarations[j]) \/ ReferenceSite(declarations[j])

\* C12: with onlyVars = true, every declaration-rule filterVars leaves in the
\* tree, at the top level or in a container, holds only declarations that
\* are definitions or reference sites, and at least one.
C12_DeclarationPruning ==
    (pc = "filtered" /\ settings.onlyVars) =>
        \A k \in 1..Len(cssTree) :
            /\ cssTree[k].type = "rule" => OnlyRelevant(cssTree[k].declarations)
            /\ \A i \in 1..Len(cssTree[k].rules) :
                   cssTree[k].rules[i].type = "rule"
                   => OnlyRelevant(cssTree[k].rules[i].declarations)

\* What the filter is to leave of a rule list: a declaration-rule, font-face
\* rule or keyframes rule with a definition or a reference site, a container
\* with what is left of its nested rules when that is not empty, and every
\* comment or other node.
RECURSIVE ExpectedFilter(_)
ExpectedFilter(rules) ==
    IF rules = <<>>
    THEN <<>>
    ELSE (IF Head(rules).type \in {"rule", "font-face", "keyframes"}
          THEN (IF RuleRelevant(Head(rules)) THEN <<Head(rules)>> ELSE <<>>)
          ELSE IF Head(rules).type = "media"
          THEN (IF ExpectedFilter(Head(rules).rules) # <<>>
                THEN <<[Head(rules) EXCEPT !.rules = ExpectedFilter(Head(rules).rules)]>>
                ELSE <<>>)
          ELSE <<Head(rules)>>)
         \o ExpectedFilter(Tail(rules))

IsContainer(rule) == rule.type = "media"

\* C13: with onlyVars = true, filterVars does not raise on any tree, and the
\* containers it leaves are those with a surviving nested rule, each with its
\* surviving nested rules, comments included.
C13_ContainerFiltering ==
    (settings.onlyVars /\ pc # "parsed") =>
        /\ filterVars(input).err = "none"
        /\ pc = "filtered" =>
               SelectSeq(cssTree, IsContainer)
                   = SelectSeq(ExpectedFilter(input), IsContainer)

\* ------------------------------------------------------------------------
\* Properties of the recursion of resolveValue
\* ------------------------------------------------------------------------

\* C14: resolveValue terminates on every value and map, cyclic maps
\* included: the recursion never comes back to a value an enclosing
\* invocation was made on (from there it would repeat forever, the function
\* being a function of value and map), and it never exhausts the stack.
C14_Termination ==
    rvPc = "returned" =>
        /\ rvOut.err # "RangeError"
        /\ \A i \in 1..Len(rvOut.calls) : \A j \in 1..Len(rvOut.calls) :
               i < j => rvOut.calls[i] # rvOut.calls[j]

\* C15: every value resolveValue is invoked on within a transformVars call,
\* from the walk or from resolveValue itself, holds the token var(.
C15_ResolverEntry ==
    \A k \in 1..Len(calls) : ContainsVarFunc(calls[k])

====
